---- MODULE Spec2Model ----
(***************************************************************************)
(* Mind Mate chatbot: the retrieval ranker (backend/retriever.py), the     *)
(* context accumulator (backend/context_manager.py), the metrics tracker   *)
(* (backend/metrics.py) and the chat and upload-document handlers with     *)
(* their confidence estimate (api/app.py) as state machines.               *)
(*                                                                         *)
(* Numbers.  Distances and scores are floats in the source.  Here they are *)
(* fixed-point integers in units of 1/100000, so One = 100000 is 1.0.  A   *)
(* confidence is a percentage in the same units (100 * One is 100.0), so   *)
(* that round(x, 2) has digits to drop.                                    *)
(*                                                                         *)
(* Text.  A string is a sequence of words, "" is <<>>, and len counts the  *)
(* words; a fixed sentence of the program is one word.  An optional value  *)
(* is <<>> for None and <<v>> for v.                                       *)
(***************************************************************************)
EXTENDS Integers, Sequences, FiniteSets, TLC

VARIABLES
    pc,                   \* where the current retrieve call stands
    req,                  \* its arguments: [top_k, filter]
    resp,                 \* what vector_store.search returned (a QueryResult)
    searchCalls,          \* calls of vector_store.search made by this retrieve call
    indexRaised,          \* whether a search of this call raised
    results,              \* the list retrieve returned
    confidence,           \* <<>> or <<c>>: the last _calculate_confidence value
    conversation_history, \* ContextManager.conversation_history
    retrieved_documents,  \* ContextManager.retrieved_documents
    current_query,        \* ContextManager.current_query
    now,                  \* logical clock behind datetime.now() and time.time()
    ret,                  \* the last method called on a component, with its value
    metrics_history,      \* MetricsTracker.metrics_history
    current_timers,       \* MetricsTracker.current_timers: name -> start time
    chat,                 \* the chat request in progress: its position and locals
    reply,                \* the last HTTP response of chat
    uploads,              \* the upload-document requests: position and locals of each
    document_count        \* chunks held by the vector index (collection.count())

vars == <<pc, req, resp, searchCalls, indexRaised, results, confidence,
          conversation_history, retrieved_documents, current_query, now, ret,
          metrics_history, current_timers, chat, reply, uploads,
          document_count>>

retrieverVars == <<pc, req, resp, searchCalls, indexRaised, results, confidence>>
contextVars == <<conversation_history, retrieved_documents, current_query, now, ret>>
metricsVars == <<metrics_history, current_timers>>
requestVars == <<chat, reply, uploads, document_count>>

----------------------------------------------------------------------------
(* Bounds of the model *)

MaxCand == 2
MaxTopK == 3

(* 1.0 in fixed point *)
One == 100000

Ids == {"a", "b"}
\* 0.1, 0.4 and 1.5: the last is a distance no normalised metric would give,
\* which the code does not validate.
Distances == {10000, 40000, 150000}
Filters == {"none", "where"}

Min(a, b) == IF a <= b THEN a ELSE b
Max(a, b) == IF a >= b THEN a ELSE b

----------------------------------------------------------------------------
(* Python list slicing seq[:k] *)
PySliceTo(seq, k) ==
    IF k >= 0 THEN SubSeq(seq, 1, Min(k, Len(seq)))
    ELSE SubSeq(seq, 1, Max(Len(seq) + k, 0))

(* Python list slicing seq[-k:] for k > 0; seq[-0:] is seq[0:] *)
PySliceLast(seq, k) ==
    IF k > 0 THEN SubSeq(seq, Max(Len(seq) - k, 0) + 1, Len(seq))
    ELSE IF k = 0 THEN seq
    ELSE SubSeq(seq, Min(0 - k, Len(seq)) + 1, Len(seq))

----------------------------------------------------------------------------
(* The vector index's answer.  Each field is the outer list of a Chroma    *)
(* QueryResult: <<>> when it is None or [], <<inner>> when it holds the    *)
(* one inner list of the single query text.                                *)

NoResp == [ids |-> <<>>, documents |-> <<>>, metadatas |-> <<>>, distances |-> <<>>]

Rows == [id : Ids, distance : Distances]
RowSeqs == UNION {[1..n -> Rows] : n \in 0..MaxCand}

\* the content and the metadata stored at position i of the answer
ContentAt(i) == <<i>>
MetadataAt(i) == {<<"pos", i>>}

\* an absent (None) field when the inner list would be empty
Outer(inner) == IF inner = <<>> THEN <<>> ELSE <<inner>>

Responses ==
    {NoResp} \cup
    { [ids       |-> << [i \in 1..Len(rows) |-> rows[i].id] >>,
       documents |-> Outer([i \in 1..nDoc |-> ContentAt(i)]),
       metadatas |-> Outer([i \in 1..nMeta |-> MetadataAt(i)]),
       distances |-> Outer([i \in 1..nDist |-> rows[i].distance])] :
      <<rows, nDoc, nMeta, nDist>> \in
        { t \in RowSeqs \X (0..MaxCand) \X (0..MaxCand) \X (0..MaxCand) :
            /\ t[2] <= Len(t[1])
            /\ t[3] <= Len(t[1])
            /\ t[4] <= Len(t[1]) } }

----------------------------------------------------------------------------
(* HybridRetriever._combine_results *)

\* the inner list of a field, [] when the outer list is falsy
Inner(field) == IF field # <<>> THEN field[1] ELSE <<>>

\* BuildResult with a missing distance scored 0.0
BuildResultZeroDefault(r, i) ==
    [id       |-> Inner(r.ids)[i],
     content  |-> IF i <= Len(Inner(r.documents)) THEN Inner(r.documents)[i] ELSE <<>>,
     metadata |-> IF i <= Len(Inner(r.metadatas)) THEN Inner(r.metadatas)[i] ELSE {},
     score    |-> IF i <= Len(Inner(r.distances)) THEN One - Inner(r.distances)[i] ELSE 0,
     source   |-> "vector"]

\* BuildResult with a missing distance scored 2.0
BuildResultHighDefault(r, i) ==
    [id       |-> Inner(r.ids)[i],
     content  |-> IF i <= Len(Inner(r.documents)) THEN Inner(r.documents)[i] ELSE <<>>,
     metadata |-> IF i <= Len(Inner(r.metadatas)) THEN Inner(r.metadatas)[i] ELSE {},
     score    |-> IF i <= Len(Inner(r.distances)) THEN One - Inner(r.distances)[i] ELSE 2 * One,
     source   |-> "vector"]

\* BuildResult that reads the content one position further on
BuildResultShifted(r, i) ==
    [id       |-> Inner(r.ids)[i],
     content  |-> IF i + 1 <= Len(Inner(r.documents)) THEN Inner(r.documents)[i + 1] ELSE <<>>,
     metadata |-> IF i <= Len(Inner(r.metadatas)) THEN Inner(r.metadatas)[i] ELSE {},
     score    |-> IF i <= Len(Inner(r.distances)) THEN One - Inner(r.distances)[i] ELSE One,
     source   |-> "vector"]

\* lines 95-114: one result per id of ids[:top_k]
BuildResult(r, i) ==
    [id       |-> Inner(r.ids)[i],
     content  |-> IF i <= Len(Inner(r.documents)) THEN Inner(r.documents)[i] ELSE <<>>,
     metadata |-> IF i <= Len(Inner(r.metadatas)) THEN Inner(r.metadatas)[i] ELSE {},
     score    |-> IF i <= Len(Inner(r.distances)) THEN One - Inner(r.distances)[i] ELSE One,
     source   |-> "vector"]

Combined(r, top_k) ==
    IF r.ids # <<>> /\ Len(r.ids) > 0 /\ Len(r.ids[1]) > 0
    THEN [i \in 1..Len(PySliceTo(r.ids[1], top_k)) |-> BuildResult(r, i)]
    ELSE <<>>

\* a descending sort that puts a later element before its equals
InsertDescUnstable(s, x) ==
    LET k == Cardinality({j \in 1..Len(s) : s[j].score > x.score})
    IN  SubSeq(s, 1, k) \o <<x>> \o SubSeq(s, k + 1, Len(s))

\* list.sort(key=score, reverse=True): a stable sort, equal keys keep their order
InsertDesc(s, x) ==
    LET k == Cardinality({j \in 1..Len(s) : s[j].score >= x.score})
    IN  SubSeq(s, 1, k) \o <<x>> \o SubSeq(s, k + 1, Len(s))

RECURSIVE SortPrefix(_, _)
SortPrefix(seq, n) ==
    IF n = 0 THEN <<>> ELSE InsertDesc(SortPrefix(seq, n - 1), seq[n])

SortByScoreDesc(seq) == SortPrefix(seq, Len(seq))

\* _combine_results with neither ids[:top_k] nor combined[:top_k]
CombineNoTruncate(r, top_k) ==
    SortByScoreDesc([i \in 1..Len(Inner(r.ids)) |-> BuildResult(r, i)])

_combine_results(r, top_k) == PySliceTo(SortByScoreDesc(Combined(r, top_k)), top_k)

----------------------------------------------------------------------------
(* HybridRetriever.retrieve and _vector_search, one step per call made *)

\* retrieve(query, top_k, metadata_filter) is entered
Retrieve(top_k, filter) ==
    /\ pc = "idle"
    /\ pc' = "search"
    /\ req' = [top_k |-> top_k, filter |-> filter]
    /\ resp' = NoResp
    /\ searchCalls' = 0
    /\ indexRaised' = FALSE
    /\ results' = <<>>
    /\ confidence' = <<>>
    /\ UNCHANGED <<contextVars, metricsVars, requestVars>>

\* a retrieve that calls search again when it raises
VectorSearchRetries ==
    /\ pc = "search"
    /\ searchCalls' = searchCalls + 1
    /\ indexRaised' = TRUE
    /\ pc' = "search"
    /\ UNCHANGED <<req, resp, results, confidence>>
    /\ UNCHANGED <<contextVars, metricsVars, requestVars>>

\* vector_store.search raises: _vector_search re-raises, retrieve re-raises
VectorSearchRaises ==
    /\ pc = "search"
    /\ searchCalls' = searchCalls + 1
    /\ indexRaised' = TRUE
    /\ pc' = "raised"
    /\ UNCHANGED <<req, resp, results, confidence>>
    /\ UNCHANGED <<contextVars, metricsVars, requestVars>>

\* vector_store.search returns r; line 64 evaluates len(results['ids'][0])
\* for its log message, which raises when the outer ids list is empty or None
VectorSearchReturns(r) ==
    /\ pc = "search"
    /\ searchCalls' = searchCalls + 1
    /\ resp' = r
    /\ pc' = IF r.ids = <<>> THEN "raised" ELSE "combine"
    /\ UNCHANGED <<req, indexRaised, results, confidence>>
    /\ UNCHANGED <<contextVars, metricsVars, requestVars>>

\* _combine_results(vector_results, top_k), and retrieve returns its value
CombineResults ==
    /\ pc = "combine"
    /\ results' = _combine_results(resp, req.top_k)
    /\ pc' = "returned"
    /\ UNCHANGED <<req, resp, searchCalls, indexRaised, confidence>>
    /\ UNCHANGED <<contextVars, metricsVars, requestVars>>

\* the caller is done with the call
Finish ==
    /\ pc \in {"returned", "raised"}
    /\ pc' = "idle"
    /\ req' = [top_k |-> 0, filter |-> "none"]
    /\ resp' = NoResp
    /\ searchCalls' = 0
    /\ indexRaised' = FALSE
    /\ results' = <<>>
    /\ confidence' = <<>>
    /\ UNCHANGED <<contextVars, metricsVars, requestVars>>

----------------------------------------------------------------------------
(* _calculate_confidence (api/app.py) *)

\* round(x, 2): to the nearest multiple of 0.01, an exact half going to the
\* even neighbour
Round2(x) ==
    LET step == One \div 100
        q == x \div step
        r == x % step
    IN  IF 2 * r < step THEN q * step
        ELSE IF 2 * r > step THEN (q + 1) * step
        ELSE IF q % 2 = 0 THEN q * step ELSE (q + 1) * step

\* max(doc['score'] for doc in documents), scanning left to right
RECURSIVE MaxScoreFrom(_, _, _)
MaxScoreFrom(documents, i, best) ==
    IF i > Len(documents) THEN best
    ELSE MaxScoreFrom(documents, i + 1,
                      IF documents[i].score > best THEN documents[i].score ELSE best)

\* a confidence taken from the first result instead of the best
FirstScoreOnly(documents) ==
    IF documents = <<>> THEN 0 ELSE Round2(Min(100 * One, documents[1].score * 100))

_calculate_confidence(documents) ==
    IF documents = <<>> THEN 0
    ELSE LET best_score == MaxScoreFrom(documents, 2, documents[1].score)
         IN  Round2(Min(100 * One, best_score * 100))

\* the caller computes the confidence of the list retrieve returned
CalculateConfidence ==
    /\ pc = "returned"
    /\ confidence = <<>>
    /\ confidence' = << _calculate_confidence(results) >>
    /\ UNCHANGED <<pc, req, resp, searchCalls, indexRaised, results>>
    /\ UNCHANGED <<contextVars, metricsVars, requestVars>>

----------------------------------------------------------------------------
(* ContextManager (backend/context_manager.py) *)

max_history == 10

Roles == {"user", "assistant"}
MsgContents == {<<"hi">>}
Queries == {<<"hotel">>, <<"any", "beach", "HOTEL", "nearby", "please">>}

\* dataclasses.asdict: a mapping with the fields of the dataclass instance
asdict(x) == [f \in DOMAIN x |-> x[f]]

\* Message(role, content, timestamp=datetime.now(), metadata=None)
Message(role, content, timestamp) ==
    [role |-> role, content |-> content, timestamp |-> timestamp, metadata |-> "None"]

add_user_message(content) ==
    /\ now' = now + 1
    /\ conversation_history' = Append(conversation_history, Message("user", content, now'))
    /\ ret' = [op |-> "add_user_message"]
    /\ UNCHANGED <<retrieved_documents, current_query>>
    /\ UNCHANGED <<retrieverVars, metricsVars, requestVars>>

add_assistant_message(content) ==
    /\ now' = now + 1
    /\ conversation_history' = Append(conversation_history, Message("assistant", content, now'))
    /\ ret' = [op |-> "add_assistant_message"]
    /\ UNCHANGED <<retrieved_documents, current_query>>
    /\ UNCHANGED <<retrieverVars, metricsVars, requestVars>>

set_current_query(query) ==
    /\ current_query' = <<query>>
    /\ ret' = [op |-> "set_current_query"]
    /\ UNCHANGED <<conversation_history, retrieved_documents, now>>
    /\ UNCHANGED <<retrieverVars, metricsVars, requestVars>>

\* RetrievedDocument(id, content, score, metadata) from a result mapping
RetrievedDocument(doc) ==
    [id |-> doc.id, content |-> doc.content, score |-> doc.score, metadata |-> doc.metadata]

add_retrieved_documents(documents) ==
    /\ retrieved_documents' =
          retrieved_documents \o [i \in 1..Len(documents) |-> RetrievedDocument(documents[i])]
    /\ ret' = [op |-> "add_retrieved_documents"]
    /\ UNCHANGED <<conversation_history, current_query, now>>
    /\ UNCHANGED <<retrieverVars, metricsVars, requestVars>>

\* a trim that keeps the first max_history turns instead of the last
TrimFirst(history) == PySliceTo(history, max_history)

_trim_conversation_history(history) ==
    IF Len(history) <= max_history THEN history
    ELSE PySliceLast(history, max_history)

\* a window that stores the trimmed history back into the log
GetContextWindowTrimsLog ==
    /\ LET trimmed_history == _trim_conversation_history(conversation_history)
           relevant_docs == PySliceTo(SortByScoreDesc(retrieved_documents), 3)
       IN  /\ ret' = [op |-> "get_context_window",
                      conversation_history |->
                          [i \in 1..Len(trimmed_history) |-> asdict(trimmed_history[i])],
                      retrieved_documents |->
                          [i \in 1..Len(relevant_docs) |-> asdict(relevant_docs[i])],
                      current_query |-> current_query]
           /\ conversation_history' = trimmed_history
    /\ UNCHANGED <<retrieved_documents, current_query, now>>
    /\ UNCHANGED <<retrieverVars, metricsVars, requestVars>>

\* a window whose documents are the first 3 stored, not the 3 best
GetContextWindowUnsorted ==
    /\ LET trimmed_history == _trim_conversation_history(conversation_history)
           relevant_docs == PySliceTo(retrieved_documents, 3)
       IN  ret' = [op |-> "get_context_window",
                   conversation_history |->
                       [i \in 1..Len(trimmed_history) |-> asdict(trimmed_history[i])],
                   retrieved_documents |->
                       [i \in 1..Len(relevant_docs) |-> asdict(relevant_docs[i])],
                   current_query |-> current_query]
    /\ UNCHANGED <<conversation_history, retrieved_documents, current_query, now>>
    /\ UNCHANGED <<retrieverVars, metricsVars, requestVars>>

get_context_window ==
    /\ LET trimmed_history == _trim_conversation_history(conversation_history)
           relevant_docs == PySliceTo(SortByScoreDesc(retrieved_documents), 3)
       IN  ret' = [op |-> "get_context_window",
                   conversation_history |->
                       [i \in 1..Len(trimmed_history) |-> asdict(trimmed_history[i])],
                   retrieved_documents |->
                       [i \in 1..Len(relevant_docs) |-> asdict(relevant_docs[i])],
                   current_query |-> current_query]
    /\ UNCHANGED <<conversation_history, retrieved_documents, current_query, now>>
    /\ UNCHANGED <<retrieverVars, metricsVars, requestVars>>

\* a reset that forgets the document log
ClearContextKeepsDocs ==
    /\ conversation_history' = <<>>
    /\ current_query' = <<>>
    /\ ret' = [op |-> "clear_context"]
    /\ UNCHANGED <<retrieved_documents, now>>
    /\ UNCHANGED <<retrieverVars, metricsVars, requestVars>>

clear_context ==
    /\ conversation_history' = <<>>
    /\ retrieved_documents' = <<>>
    /\ current_query' = <<>>
    /\ ret' = [op |-> "clear_context"]
    /\ UNCHANGED now
    /\ UNCHANGED <<retrieverVars, metricsVars, requestVars>>

----------------------------------------------------------------------------
(* MetricsTracker (backend/metrics.py) and the request handlers' state *)

\* the empty dict of timers
NoTimers == [n \in {} |-> 0]

InitMetrics ==
    /\ metrics_history = <<>>
    /\ current_timers = NoTimers

NoReply == [status |-> 0]
UploadIds == {1, 2}

InitRequests ==
    /\ chat = [pc |-> "idle"]
    /\ reply = NoReply
    /\ uploads = [u \in UploadIds |-> [pc |-> "idle"]]
    /\ document_count = 0

----------------------------------------------------------------------------
(* ContextManager.get_context_summary and _estimate_tokens *)

RECURSIVE SumContentLen(_, _)
SumContentLen(seq, i) ==
    IF i > Len(seq) THEN 0 ELSE Len(seq[i].content) + SumContentLen(seq, i + 1)

_estimate_tokens ==
    LET total_chars ==
            SumContentLen(conversation_history, 1)
            + SumContentLen(retrieved_documents, 1)
            + (IF current_query # <<>> /\ current_query[1] # <<>>
               THEN Len(current_query[1]) ELSE 0)
    IN  total_chars \div 4

get_context_summary ==
    /\ ret' = [op |-> "get_context_summary",
               conversation_length |-> Len(conversation_history),
               retrieved_documents_count |-> Len(retrieved_documents),
               current_query |-> current_query,
               total_tokens_estimated |-> _estimate_tokens]
    /\ UNCHANGED <<conversation_history, retrieved_documents, current_query, now>>
    /\ UNCHANGED <<retrieverVars, metricsVars, requestVars>>

----------------------------------------------------------------------------
(* MetricsTracker methods.  A duration is a float of seconds, here in      *)
(* fixed point; t is the value time.time() returns to the call, in whole   *)
(* seconds of the logical clock.                                           *)

\* current_timers[timer_name] = time.time()
Started(timers, timer_name, t) ==
    [n \in DOMAIN timers \cup {timer_name} |-> IF n = timer_name THEN t ELSE timers[n]]

\* a stop that forgets every running timer
StoppedAll(timers, timer_name) == NoTimers

\* del current_timers[timer_name]
Stopped(timers, timer_name) == [n \in DOMAIN timers \ {timer_name} |-> timers[n]]

\* the value stop_timer returns
Elapsed(timers, timer_name, t) ==
    IF timer_name \notin DOMAIN timers THEN 0 ELSE (t - timers[timer_name]) * One

start_timer(timer_name, t) ==
    /\ now' = t
    /\ current_timers' = Started(current_timers, timer_name, t)
    /\ ret' = [op |-> "start_timer", timer_name |-> timer_name]
    /\ UNCHANGED <<metrics_history, conversation_history, retrieved_documents, current_query>>
    /\ UNCHANGED <<retrieverVars, requestVars>>

stop_timer(timer_name, t) ==
    /\ IF timer_name \notin DOMAIN current_timers
       THEN /\ ret' = [op |-> "stop_timer", timer_name |-> timer_name,
                       value |-> 0, warning |-> TRUE]
            /\ UNCHANGED <<now, current_timers>>
       ELSE /\ now' = t
            /\ ret' = [op |-> "stop_timer", timer_name |-> timer_name,
                       value |-> Elapsed(current_timers, timer_name, t),
                       warning |-> FALSE]
            /\ current_timers' = Stopped(current_timers, timer_name)
    /\ UNCHANGED <<metrics_history, conversation_history, retrieved_documents, current_query>>
    /\ UNCHANGED <<retrieverVars, requestVars>>

\* PerformanceMetrics(...), metadata left at its default None
PerformanceMetrics(timestamp, query_processing_time, document_retrieval_time, response_generation_time, total_response_time, documents_retrieved, documents_used, context_length, query_length, response_length, similarity_scores) ==
    [timestamp |-> timestamp,
     query_processing_time |-> query_processing_time,
     document_retrieval_time |-> document_retrieval_time,
     response_generation_time |-> response_generation_time,
     total_response_time |-> total_response_time,
     documents_retrieved |-> documents_retrieved,
     documents_used |-> documents_used,
     context_length |-> context_length,
     query_length |-> query_length,
     response_length |-> response_length,
     similarity_scores |-> similarity_scores,
     metadata |-> <<>>]

record_metrics(metrics) ==
    /\ metrics_history' = Append(metrics_history, metrics)
    /\ ret' = [op |-> "record_metrics"]
    /\ UNCHANGED <<current_timers, conversation_history, retrieved_documents,
                   current_query, now>>
    /\ UNCHANGED <<retrieverVars, requestVars>>

get_latest_metrics ==
    /\ ret' = [op |-> "get_latest_metrics",
               value |-> IF metrics_history = <<>> THEN <<>>
                         ELSE <<metrics_history[Len(metrics_history)]>>]
    /\ UNCHANGED <<metricsVars, conversation_history, retrieved_documents,
                   current_query, now>>
    /\ UNCHANGED <<retrieverVars, requestVars>>

\* sum(m.<field> for m in records)
RECURSIVE SumField(_, _, _)
SumField(records, field, i) ==
    IF i > Len(records) THEN 0 ELSE records[i][field] + SumField(records, field, i + 1)

\* the similarity_scores of the records, extended into one list
RECURSIVE AllSimilarityScores(_, _)
AllSimilarityScores(records, i) ==
    IF i > Len(records) THEN <<>>
    ELSE records[i].similarity_scores \o AllSimilarityScores(records, i + 1)

\* lines 104-133: the record of averages over a non-empty list of records;
\* the integer fields are int(sum / len)
Averages(recent_metrics) ==
    LET n == Len(recent_metrics)
        avg(field) == SumField(recent_metrics, field, 1) \div n
    IN  PerformanceMetrics(now,
                           avg("query_processing_time"),
                           avg("document_retrieval_time"),
                           avg("response_generation_time"),
                           avg("total_response_time"),
                           avg("documents_retrieved"),
                           avg("documents_used"),
                           avg("context_length"),
                           avg("query_length"),
                           avg("response_length"),
                           AllSimilarityScores(recent_metrics, 1))

\* the value of get_average_metrics(last_n) on a history: <<>> is None
AverageMetrics(history, last_n) ==
    IF history = <<>> THEN <<>>
    ELSE LET recent_metrics == PySliceLast(history, last_n)
         IN  IF recent_metrics = <<>> THEN <<>> ELSE <<Averages(recent_metrics)>>

get_average_metrics(last_n) ==
    /\ ret' = [op |-> "get_average_metrics", last_n |-> last_n,
               value |-> AverageMetrics(metrics_history, last_n)]
    /\ UNCHANGED <<metricsVars, conversation_history, retrieved_documents,
                   current_query, now>>
    /\ UNCHANGED <<retrieverVars, requestVars>>

\* round(x, 4): to the nearest multiple of 0.0001, an exact half going to
\* the even neighbour
Round4(x) ==
    LET step == One \div 10000
        q == x \div step
        r == x % step
    IN  IF 2 * r < step THEN q * step
        ELSE IF 2 * r > step THEN (q + 1) * step
        ELSE IF q % 2 = 0 THEN q * step ELSE (q + 1) * step

\* the value of get_metrics_summary on a history
MetricsSummary(history) ==
    IF history = <<>> THEN [message |-> <<"No", "metrics", "recorded", "yet">>]
    ELSE LET total_queries == Len(history)
             recent_metrics == AverageMetrics(history, 10)
         IN  [total_queries_processed |-> total_queries,
              average_response_time |->
                  Round4(SumField(history, "total_response_time", 1) \div total_queries),
              average_documents_retrieved |->
                  Round2((SumField(history, "documents_retrieved", 1) * One)
                             \div total_queries),
              recent_performance |->
                  IF recent_metrics # <<>> THEN <<asdict(recent_metrics[1])>> ELSE <<>>,
              tracking_since |-> <<history[1].timestamp>>]

get_metrics_summary ==
    /\ ret' = [op |-> "get_metrics_summary", value |-> MetricsSummary(metrics_history)]
    /\ UNCHANGED <<metricsVars, conversation_history, retrieved_documents,
                   current_query, now>>
    /\ UNCHANGED <<retrieverVars, requestVars>>

clear_metrics ==
    /\ metrics_history' = <<>>
    /\ current_timers' = NoTimers
    /\ ret' = [op |-> "clear_metrics"]
    /\ UNCHANGED <<conversation_history, retrieved_documents, current_query, now>>
    /\ UNCHANGED <<retrieverVars, requestVars>>

----------------------------------------------------------------------------
(* The chat handler's helpers (api/app.py) *)

\* backend/config.py: the default top_k of retrieve
TOP_K_RESULTS == 5

\* str.lower(), on the words the queries are made of
Lower(w) == IF w = "HOTEL" THEN "hotel" ELSE w

\* word in query.lower()
InLower(word, query) == \E i \in 1..Len(query) : Lower(query[i]) = word

FallbackJammu ==
    <<"Jammu (in Jammu & Kashmir) is a great base for religious visits and mountain access. Quick tips: ...">>
FallbackHotel ==
    <<"For finding hotels: pick a neighbourhood close to the attractions you want, check recent reviews, and filter by your budget and required amenities (Wi-Fi, breakfast, free cancellation).">>
FallbackFlight ==
    <<"For flights: search flexible dates 2-3 months ahead, consider mid-week departures, and use price alerts. If you give me your departure city and dates, I can suggest a strategy.">>
FallbackGeneric ==
    <<"I don't have matching documents in my knowledge base right now. You can upload travel documents ...">>

\* a fallback that answers with the query itself
EchoQuery(query) == query

_fallback_response(query) ==
    IF InLower("jammu", query) THEN FallbackJammu
    ELSE IF InLower("hotel", query) \/ InLower("accommodation", query) THEN FallbackHotel
    ELSE IF InLower("flight", query) \/ InLower("airline", query) THEN FallbackFlight
    ELSE FallbackGeneric

\* max(documents, key=score): the index of the first document with the best score
RECURSIVE FirstBest(_, _, _)
FirstBest(documents, i, best) ==
    IF i > Len(documents) THEN best
    ELSE FirstBest(documents, i + 1,
                   IF documents[i].score > documents[best].score THEN i ELSE best)

\* prefix + content[:limit] + "..." if len(content) > limit else content:
\* the conditional takes the whole sum as its first branch
Excerpt(prefix, content, limit) ==
    IF Len(content) > limit THEN prefix \o SubSeq(content, 1, limit) \o <<"...">>
    ELSE content

_generate_response(query, documents) ==
    IF documents = <<>>
    THEN <<"I don't have specific information about that topic in my knowledge base. Could you provide more details or ask about something else related to travel?">>
    ELSE LET best_doc == documents[FirstBest(documents, 2, 1)]
         IN  IF InLower("beach", query) \/ InLower("ocean", query)
             THEN Excerpt(<<"Based on my travel knowledge, beaches are wonderful destinations for relaxation. ">>,
                          best_doc.content, 200)
             ELSE IF InLower("hotel", query) \/ InLower("accommodation", query)
             THEN Excerpt(<<"For accommodations, I recommend considering location and amenities. ">>,
                          best_doc.content, 200)
             ELSE IF InLower("food", query) \/ InLower("restaurant", query)
             THEN Excerpt(<<"Food is an essential part of travel experience. ">>,
                          best_doc.content, 200)
             ELSE Excerpt(<<"Based on my travel knowledge: ">>, best_doc.content, 300)

\* f"{x:.2f}s"
Seconds2(x) == <<Round2(x), "s">>

\* a response that lists every retrieved document
AllDocuments(retrieved_docs) ==
    [i \in 1..Len(retrieved_docs) |->
        [id |-> retrieved_docs[i].id,
         content |-> Excerpt(<<>>, retrieved_docs[i].content, 200),
         score |-> retrieved_docs[i].score,
         metadata |-> retrieved_docs[i].metadata]]

\* lines 210-218: the entries of retrieved_documents in the response body
TopDocuments(retrieved_docs) ==
    LET top == PySliceTo(retrieved_docs, 3)
    IN  [i \in 1..Len(top) |->
            [id |-> top[i].id,
             content |-> IF Len(top[i].content) > 200
                         THEN SubSeq(top[i].content, 1, 200) \o <<"...">>
                         ELSE top[i].content,
             score |-> top[i].score,
             metadata |-> top[i].metadata]]

\* a history that puts the newest record first
RecordedFirst(history, metrics) == <<metrics>> \o history

\* metrics_tracker.record_metrics(metrics) on a history
Recorded(history, metrics) == Append(history, metrics)

----------------------------------------------------------------------------
(* POST /api/chat.  The handler has no await, so it runs to its end once   *)
(* started; it is cut here at the call of retriever.retrieve, whose steps  *)
(* are those of the retrieval ranker.  t is the clock value the step's     *)
(* time.time() calls read.                                                 *)

\* lines 89-110: validation, timers, the user turn, and retrieve is called
ChatReceive(message, t) ==
    /\ chat.pc = "idle"
    /\ pc = "idle"
    /\ IF message = <<>>
       THEN \* HTTPException(400) is raised inside the try and caught by
            \* "except Exception" at line 224
            /\ reply' = [status |-> 500,
                         detail |-> <<"Error processing chat query: ",
                                      "400: Message is required">>]
            /\ UNCHANGED <<chat, retrieverVars, contextVars, metricsVars>>
       ELSE LET timers1 == Started(Started(current_timers, "total_response", t),
                                   "query_processing", t)
                query_processing_time == Elapsed(timers1, "query_processing", t + 1)
            IN  /\ current_query' = <<message>>
                /\ now' = t + 1
                /\ conversation_history' =
                       Append(conversation_history, Message("user", message, t + 1))
                /\ current_timers' =
                       Started(Stopped(timers1, "query_processing"),
                               "document_retrieval", t + 1)
                /\ chat' = [pc |-> "retrieving", user_query |-> message,
                            query_processing_time |-> query_processing_time]
                /\ reply' = NoReply
                /\ ret' = [op |-> "start_timer", timer_name |-> "document_retrieval"]
                /\ pc' = "search"
                /\ req' = [top_k |-> TOP_K_RESULTS, filter |-> "none"]
                /\ resp' = NoResp
                /\ searchCalls' = 0
                /\ indexRaised' = FALSE
                /\ results' = <<>>
                /\ confidence' = <<>>
                /\ UNCHANGED <<retrieved_documents, metrics_history>>
    /\ UNCHANGED <<uploads, document_count>>

\* lines 111-138: what the handler does when retrieve raised
RetrievalFailed(t) ==
    LET user_query == chat.user_query
        response == _fallback_response(user_query)
        total_time == Elapsed(current_timers, "total_response", t)
    IN  [timers |-> Stopped(current_timers, "total_response"),
         metrics |-> PerformanceMetrics(t, 0, 0, 0, total_time, 0, 0,
                                        Len(user_query), Len(user_query),
                                        Len(response), <<>>),
         body |-> [status |-> 200,
                   query |-> user_query,
                   response |-> response,
                   confidence |-> 80 * One,
                   documents_retrieved |-> 0,
                   response_time |-> Seconds2(total_time),
                   retrieved_documents |-> <<>>]]

\* lines 141-169: what the handler does when retrieve returned no documents
NoDocuments(t) ==
    LET user_query == chat.user_query
        retrieval_time == Elapsed(current_timers, "document_retrieval", t)
        timers1 == Stopped(current_timers, "document_retrieval")
        response == _fallback_response(user_query)
        total_time == Elapsed(timers1, "total_response", t)
    IN  [timers |-> Stopped(timers1, "total_response"),
         metrics |-> PerformanceMetrics(t, 0, retrieval_time, 0, total_time, 0, 0,
                                        Len(user_query), Len(user_query),
                                        Len(response), <<>>),
         body |-> [status |-> 200,
                   query |-> user_query,
                   response |-> response,
                   confidence |-> 75 * One,
                   documents_retrieved |-> 0,
                   response_time |-> Seconds2(total_time),
                   retrieved_documents |-> <<>>]]

ChatRetrievalFailed(t) ==
    /\ chat.pc = "retrieving"
    /\ pc = "raised"
    /\ LET out == RetrievalFailed(t)
       IN  /\ current_timers' = out.timers
           /\ metrics_history' = Recorded(metrics_history, out.metrics)
           /\ reply' = out.body
    /\ now' = t
    /\ ret' = [op |-> "record_metrics"]
    /\ chat' = [pc |-> "idle"]
    /\ pc' = "idle"
    /\ req' = [top_k |-> 0, filter |-> "none"]
    /\ resp' = NoResp
    /\ searchCalls' = 0
    /\ indexRaised' = FALSE
    /\ results' = <<>>
    /\ UNCHANGED <<confidence, conversation_history, retrieved_documents, current_query>>
    /\ UNCHANGED <<uploads, document_count>>

ChatNoDocuments(t) ==
    /\ chat.pc = "retrieving"
    /\ pc = "returned"
    /\ results = <<>>
    /\ LET out == NoDocuments(t)
       IN  /\ current_timers' = out.timers
           /\ metrics_history' = Recorded(metrics_history, out.metrics)
           /\ reply' = out.body
    /\ now' = t
    /\ ret' = [op |-> "record_metrics"]
    /\ chat' = [pc |-> "idle"]
    /\ pc' = "idle"
    /\ req' = [top_k |-> 0, filter |-> "none"]
    /\ resp' = NoResp
    /\ searchCalls' = 0
    /\ indexRaised' = FALSE
    /\ results' = <<>>
    /\ UNCHANGED <<confidence, conversation_history, retrieved_documents, current_query>>
    /\ UNCHANGED <<uploads, document_count>>

\* lines 141 and 170-223: retrieve returned documents
ChatAnswered(t) ==
    /\ chat.pc = "retrieving"
    /\ pc = "returned"
    /\ results # <<>>
    /\ LET user_query == chat.user_query
           retrieved_docs == results
           retrieval_time == Elapsed(current_timers, "document_retrieval", t)
           timers1 == Started(Stopped(current_timers, "document_retrieval"),
                              "response_generation", t)
           response == _generate_response(user_query, retrieved_docs)
           generation_time == Elapsed(timers1, "response_generation", t)
           timers2 == Stopped(timers1, "response_generation")
           total_time == Elapsed(timers2, "total_response", t)
       IN  /\ current_timers' = Stopped(timers2, "total_response")
           /\ retrieved_documents' =
                  retrieved_documents \o
                  [i \in 1..Len(retrieved_docs) |-> RetrievedDocument(retrieved_docs[i])]
           /\ now' = t + 1
           /\ conversation_history' =
                  Append(conversation_history, Message("assistant", response, t + 1))
           /\ metrics_history' =
                  Recorded(metrics_history,
                           PerformanceMetrics(t + 1, chat.query_processing_time,
                                              retrieval_time, generation_time, total_time,
                                              Len(retrieved_docs),
                                              Min(3, Len(retrieved_docs)),
                                              Len(user_query) + SumContentLen(retrieved_docs, 1),
                                              Len(user_query), Len(response),
                                              [i \in 1..Len(retrieved_docs) |->
                                                  retrieved_docs[i].score]))
           /\ reply' = [status |-> 200,
                        query |-> user_query,
                        response |-> response,
                        confidence |-> _calculate_confidence(retrieved_docs),
                        documents_retrieved |-> Len(retrieved_docs),
                        response_time |-> Seconds2(total_time),
                        retrieved_documents |-> TopDocuments(retrieved_docs)]
    /\ ret' = [op |-> "record_metrics"]
    /\ chat' = [pc |-> "idle"]
    /\ pc' = "idle"
    /\ req' = [top_k |-> 0, filter |-> "none"]
    /\ resp' = NoResp
    /\ searchCalls' = 0
    /\ indexRaised' = FALSE
    /\ results' = <<>>
    /\ UNCHANGED <<confidence, current_query>>
    /\ UNCHANGED <<uploads, document_count>>

----------------------------------------------------------------------------
(* POST /api/upload-document.  The handler awaits file.read() between its  *)
(* start_timer and its stop_timer, where the event loop may run another    *)
(* request; started, finished, elapsed and warning record what the request *)
(* itself observed.                                                        *)

\* lines 49-60: the timer is started, the filename checked, the read awaited
UploadStart(u, filename, t) ==
    /\ uploads[u].pc = "idle"
    /\ now' = t
    /\ current_timers' = Started(current_timers, "document_processing", t)
    /\ ret' = [op |-> "start_timer", timer_name |-> "document_processing"]
    /\ uploads' =
          [uploads EXCEPT ![u] =
              IF filename = <<>>
              THEN \* HTTPException(400) is caught by "except Exception" at line 81
                   [pc |-> "done", status |-> 500,
                    detail |-> <<"Error processing document: ",
                                 "400: Filename is required">>]
              ELSE [pc |-> "reading", filename |-> filename[1], started |-> t]]
    /\ UNCHANGED <<metrics_history, conversation_history, retrieved_documents,
                   current_query>>
    /\ UNCHANGED <<retrieverVars, chat, reply, document_count>>

\* lines 60-80: the read is over; the file is written, chunked and indexed
UploadProcessed(u, chunks, t) ==
    /\ uploads[u].pc = "reading"
    /\ now' = t
    /\ current_timers' = Stopped(current_timers, "document_processing")
    /\ ret' = [op |-> "stop_timer", timer_name |-> "document_processing",
               value |-> Elapsed(current_timers, "document_processing", t),
               warning |-> "document_processing" \notin DOMAIN current_timers]
    /\ document_count' = document_count + chunks
    /\ uploads' =
          [uploads EXCEPT ![u] =
              [pc |-> "done", status |-> 200,
               filename |-> uploads[u].filename,
               chunks_created |-> chunks,
               processing_time |->
                   Seconds2(Elapsed(current_timers, "document_processing", t)),
               started |-> uploads[u].started,
               finished |-> t,
               elapsed |-> Elapsed(current_timers, "document_processing", t),
               warning |-> "document_processing" \notin DOMAIN current_timers]]
    /\ UNCHANGED <<metrics_history, conversation_history, retrieved_documents,
                   current_query>>
    /\ UNCHANGED <<retrieverVars, chat, reply>>

\* lines 59-68 raise (open, process_document, add_documents): lines 81-83
UploadFailed(u, t) ==
    /\ uploads[u].pc = "reading"
    /\ now' = t
    /\ uploads' = [uploads EXCEPT ![u] =
                      [pc |-> "done", status |-> 500,
                       detail |-> <<"Error processing document: ", "error">>]]
    /\ UNCHANGED <<metricsVars, conversation_history, retrieved_documents,
                   current_query, ret>>
    /\ UNCHANGED <<retrieverVars, chat, reply, document_count>>

InitRetriever ==
    /\ pc = "idle"
    /\ req = [top_k |-> 0, filter |-> "none"]
    /\ resp = NoResp
    /\ searchCalls = 0
    /\ indexRaised = FALSE
    /\ results = <<>>
    /\ confidence = <<>>

InitContext ==
    /\ conversation_history = <<>>
    /\ retrieved_documents = <<>>
    /\ current_query = <<>>
    /\ now = 0
    /\ ret = <<>>

Init == InitRetriever /\ InitContext /\ InitMetrics /\ InitRequests

NextRetrieve ==
    \/ \E k \in 0..MaxTopK, f \in Filters : Retrieve(k, f)
    \/ VectorSearchRaises
    \/ \E r \in Responses : VectorSearchReturns(r)
    \/ CombineResults
    \/ CalculateConfidence
    \/ Finish

SpecRetrieve == Init /\ [][NextRetrieve]_vars

----------------------------------------------------------------------------
(* _calculate_confidence on arbitrary result lists *)

MaxDocs == 3

\* -0.33333, 0.0, 0.66667, 0.9, 1.0 and 1.2
ConfScores == {0 - 33333, 0, 66667, 90000, 100000, 120000}

ConfDocs == [id : {"a"}, content : {<<>>}, metadata : {{}}, score : ConfScores,
             source : {"vector"}]

InitConfidence ==
    /\ pc = "returned"
    /\ req = [top_k |-> 0, filter |-> "none"]
    /\ resp = NoResp
    /\ searchCalls = 0
    /\ indexRaised = FALSE
    /\ results \in UNION {[1..n -> ConfDocs] : n \in 0..MaxDocs}
    /\ confidence = <<>>
    /\ InitContext
    /\ InitMetrics
    /\ InitRequests

NextConfidence == CalculateConfidence

SpecConfidence == InitConfidence /\ [][NextConfidence]_vars

----------------------------------------------------------------------------
(* The conversation log on its own: appends, the window and resets *)

MaxTurns == 15

NextHistory ==
    \/ \E c \in MsgContents : now < MaxTurns /\ add_user_message(c)
    \/ \E c \in MsgContents : now < MaxTurns /\ add_assistant_message(c)
    \/ get_context_window
    \/ clear_context

SpecHistory == Init /\ [][NextHistory]_vars

----------------------------------------------------------------------------
(* The document log on its own: several add_retrieved_documents calls *)

MaxStored == 4

\* 0.6 and 0.9
DocScores == {60000, 90000}
DocInputs == [id : Ids, content : {<<1>>}, metadata : {{}}, score : DocScores,
              source : {"vector"}]
DocLists == UNION {[1..n -> DocInputs] : n \in 1..2}

NextDocs ==
    \/ \E docs \in DocLists :
          /\ Len(retrieved_documents) + Len(docs) <= MaxStored
          /\ add_retrieved_documents(docs)
    \/ get_context_window
    \/ clear_context

SpecDocs == Init /\ [][NextDocs]_vars

----------------------------------------------------------------------------
(* The context accumulator as a whole: turns, documents, query, views *)

MaxCtxTurns == 11
MaxCtxDocs == 1

CtxDocs == [id : {"a"}, content : {<<"doc">>}, metadata : {{}}, score : {90000},
            source : {"vector"}]

NextContext ==
    \/ \E c \in MsgContents : now < MaxCtxTurns /\ add_user_message(c)
    \/ \E c \in MsgContents : now < MaxCtxTurns /\ add_assistant_message(c)
    \/ \E q \in Queries : set_current_query(q)
    \/ \E d \in CtxDocs :
          /\ Len(retrieved_documents) < MaxCtxDocs
          /\ add_retrieved_documents(<<d>>)
    \/ get_context_window
    \/ get_context_summary
    \/ clear_context

SpecContext == Init /\ [][NextContext]_vars

----------------------------------------------------------------------------
(* The named timers of MetricsTracker on their own *)

MaxClock == 3
MaxTimed == 1

TimerNames == {"total_response", "document_retrieval", "document_processing"}

\* what time.time() may return to the next call
TimeReads == {t \in {now, now + 1} : t <= MaxClock}

TimedRecord == PerformanceMetrics(now, 0, 0, 0, One, 0, 0, 0, 1, 1, <<>>)

NextTimers ==
    \/ \E n \in TimerNames, t \in TimeReads : start_timer(n, t)
    \/ \E n \in TimerNames, t \in TimeReads : stop_timer(n, t)
    \/ Len(metrics_history) < MaxTimed /\ record_metrics(TimedRecord)
    \/ clear_metrics

SpecTimers == Init /\ [][NextTimers]_vars

----------------------------------------------------------------------------
(* The metrics history on its own: records, averages and the summary *)

MaxRecords == 3
MaxLastN == 4

\* a fast query with no documents and a slow one with three
MetricInputs ==
    { PerformanceMetrics(now, 0, 0, 0, One, 0, 0, 2, 1, 4, <<>>),
      PerformanceMetrics(now, One \div 2, One, One, 4 * One, 3, 3, 9, 5, 7,
                         <<90000, 60000, 60000>>) }

NextMetrics ==
    \/ \E m \in MetricInputs : Len(metrics_history) < MaxRecords /\ record_metrics(m)
    \/ get_latest_metrics
    \/ \E last_n \in 0..MaxLastN : get_average_metrics(last_n)
    \/ get_metrics_summary
    \/ clear_metrics

SpecMetrics == Init /\ [][NextMetrics]_vars

----------------------------------------------------------------------------
(* Chat requests one after another, with GET /api/metrics in between *)

MaxChatTurns == 2
MaxChatCand == 4

ChatMessages == {<<>>, <<"hi">>} \cup Queries

\* the index's answers to a chat query: n candidates, the second the nearest
\* and a text of 301 words
ChatIdAt(i) == <<"a", "b", "c", "d", "e", "f">>[i]
ChatDistanceAt(i) == IF i = 2 THEN 10000 ELSE IF i = 4 THEN 150000 ELSE 40000
ChatContentAt(i) == IF i = 2 THEN [j \in 1..301 |-> "word"] ELSE ContentAt(i)

ChatResponses ==
    {NoResp} \cup
    { [ids       |-> << [i \in 1..n |-> ChatIdAt(i)] >>,
       documents |-> << [i \in 1..n |-> ChatContentAt(i)] >>,
       metadatas |-> << [i \in 1..n |-> MetadataAt(i)] >>,
       distances |-> << [i \in 1..n |-> ChatDistanceAt(i)] >>] : n \in 0..MaxChatCand }

\* what time.time() may return to a step of the handler
ChatTimeReads == {now, now + 1}

NextChat ==
    \/ \E m \in ChatMessages, t \in ChatTimeReads :
          /\ Len(conversation_history) < MaxChatTurns
          /\ ChatReceive(m, t)
    \/ chat.pc = "retrieving" /\ VectorSearchRaises
    \/ \E r \in ChatResponses : chat.pc = "retrieving" /\ VectorSearchReturns(r)
    \/ chat.pc = "retrieving" /\ CombineResults
    \/ \E t \in ChatTimeReads : ChatRetrievalFailed(t)
    \/ \E t \in ChatTimeReads : ChatNoDocuments(t)
    \/ \E t \in ChatTimeReads : ChatAnswered(t)
    \/ chat.pc = "idle" /\ get_metrics_summary
    \/ chat.pc = "idle" /\ clear_metrics

SpecChat == Init /\ [][NextChat]_vars

----------------------------------------------------------------------------
(* Two upload-document requests on one event loop *)

MaxUploadClock == 3
MaxChunks == 2

\* file.filename: None or a name
Filenames == {<<>>, <<"guide.pdf">>}

UploadTimeReads == {t \in {now, now + 1} : t <= MaxUploadClock}

NextUpload ==
    \/ \E u \in UploadIds, f \in Filenames, t \in UploadTimeReads : UploadStart(u, f, t)
    \/ \E u \in UploadIds, n \in 1..MaxChunks, t \in UploadTimeReads :
          UploadProcessed(u, n, t)
    \/ \E u \in UploadIds, t \in UploadTimeReads : UploadFailed(u, t)

SpecUpload == Init /\ [][NextUpload]_vars

----------------------------------------------------------------------------
(* The ranker on answers of a normalised metric: every distance in [0, 1] *)

MaxUnitCand == 2

\* 0.0, 0.5 and 1.0
UnitDistances == {0, 50000, 100000}

UnitRowSeqs == UNION {[1..n -> [id : Ids, distance : UnitDistances]] : n \in 0..MaxUnitCand}

UnitResponses ==
    { [ids       |-> << [i \in 1..Len(rows) |-> rows[i].id] >>,
       documents |-> Outer([i \in 1..Len(rows) |-> ContentAt(i)]),
       metadatas |-> Outer([i \in 1..Len(rows) |-> MetadataAt(i)]),
       distances |-> Outer([i \in 1..nDist |-> rows[i].distance])] :
      <<rows, nDist>> \in { t \in UnitRowSeqs \X (0..MaxUnitCand) : t[2] <= Len(t[1]) } }

NextUnit ==
    \/ \E k \in 1..TOP_K_RESULTS : Retrieve(k, "none")
    \/ VectorSearchRaises
    \/ \E r \in UnitResponses : VectorSearchReturns(r)
    \/ CombineResults
    \/ Finish

SpecUnit == Init /\ [][NextUnit]_vars

----------------------------------------------------------------------------
(* Claims about the retrieval ranker, under SpecRetrieve *)

RespIds == Inner(resp.ids)
RespDistances == Inner(resp.distances)

\* the positions of the index's answer that a call with top_k >= 0 looks at
Looked == 1..Min(req.top_k, Len(RespIds))

\* the score the claims give the candidate at position i
ScoreAt(i) == IF i <= Len(RespDistances) THEN One - RespDistances[i] ELSE One

\* the ways to read results as candidates: results[j] is the candidate at p[j]
Readings(positions) ==
    { p \in [1..Len(results) -> positions] :
        /\ \A j, k \in 1..Len(results) : j # k => p[j] # p[k]
        /\ \A j \in 1..Len(results) :
              /\ results[j].id = RespIds[p[j]]
              /\ results[j].score = ScoreAt(p[j])
              /\ results[j].content = BuildResult(resp, p[j]).content
              /\ results[j].metadata = BuildResult(resp, p[j]).metadata }

\* C1: retrieve returns at most top_k results, whatever the index answers.
C1_AtMostTopK ==
    pc = "returned" => Len(results) <= req.top_k

C1_Witness ==
    /\ pc = "returned"
    /\ req.top_k > 0
    /\ Len(RespIds) > req.top_k
    /\ Len(results) = req.top_k

\* C2: the returned list is ordered by score non-increasing, and results of
\* equal score keep the relative order of their positions in the answer.
C2_SortedStable ==
    pc = "returned" =>
        /\ \A j, k \in 1..Len(results) :
              j < k => results[j].score >= results[k].score
        /\ \E p \in Readings(1..Len(RespIds)) :
              \A j, k \in 1..Len(results) :
                  (j < k /\ results[j].score = results[k].score) => p[j] < p[k]

C2_Witness ==
    /\ pc = "returned"
    /\ Len(results) = 2
    /\ results[1].score = results[2].score
    /\ results[1].id # results[2].id

\* C3 (as claimed): the result is the first top_k elements of the stable
\* score-descending sort of all the candidates the index returned.
C3_SortThenTruncate ==
    pc = "returned" =>
        results = PySliceTo(SortByScoreDesc([i \in 1..Len(RespIds) |-> BuildResult(resp, i)]),
                            req.top_k)

\* C4: the result built for position i has score 1 - distance[i], or 1.0
\* when the distances list has no entry there; ids [a,b] with distances
\* [0.1,0.4] give scores [0.9,0.6] in order [a,b].
C4_ScoreFromDistance ==
    pc = "returned" =>
        /\ Len(results) = Cardinality(Looked)
        /\ Readings(Looked) # {}
        /\ (/\ RespIds = <<"a", "b">>
            /\ RespDistances = <<10000, 40000>>
            /\ req.top_k >= 2)
           => /\ [j \in 1..Len(results) |-> results[j].id] = <<"a", "b">>
              /\ [j \in 1..Len(results) |-> results[j].score] = <<90000, 60000>>

C4_Witness ==
    /\ pc = "returned"
    /\ Len(RespIds) = 2
    /\ Len(RespDistances) = 1
    /\ Len(results) = 2
    /\ \E j \in 1..2 : results[j].id = RespIds[2] /\ results[j].score = One
    /\ \E j \in 1..2 : results[j].score = One - RespDistances[1] /\ results[j].score # One

\* C5 (as claimed): no two results of one call carry the same id.
C5_Deduplicated ==
    pc = "returned" =>
        \A j, k \in 1..Len(results) : j # k => results[j].id # results[k].id

\* C6 (as claimed): when the index returns zero candidates, ids empty or its
\* first inner list empty, retrieve returns the empty list and raises nothing.
C6_EmptyIsNoError ==
    (searchCalls > 0 /\ ~indexRaised /\ Len(RespIds) = 0) =>
        /\ pc # "raised"
        /\ pc = "returned" => results = <<>>

\* C7: retrieve calls the index's search exactly once per call and never
\* retries; when that search raises, the call ends raising, with no result.
C7_OneSearchNoRetry ==
    /\ pc = "search" => (searchCalls = 0 /\ ~indexRaised)
    /\ pc \in {"combine", "returned", "raised"} => searchCalls = 1
    /\ indexRaised => (pc = "raised" /\ results = <<>>)

C7_Witness ==
    /\ pc = "raised"
    /\ indexRaised
    /\ searchCalls = 1

\* C8 (as claimed): the confidence of any list retrieve can return lies in
\* the closed range [0, 100].
C8_ConfidenceInRange ==
    confidence # <<>> => (0 <= confidence[1] /\ confidence[1] <= 100 * One)

----------------------------------------------------------------------------
(* Claims about _calculate_confidence, under SpecConfidence *)

\* C9: the confidence is 0.0 for an empty list and otherwise min(100, 100 * m)
\* rounded to two decimals, m the greatest score of the list, whatever the
\* order and the other fields of the results.
C9_ConfidenceIsCappedMax ==
    confidence # <<>> =>
        IF results = <<>> THEN confidence[1] = 0
        ELSE \E j \in 1..Len(results) :
                /\ \A k \in 1..Len(results) : results[k].score <= results[j].score
                /\ LET m == results[j].score
                       scaled == IF 100 * m > 100 * One THEN 100 * One ELSE 100 * m
                   IN  /\ confidence[1] % (One \div 100) = 0
                       /\ 2 * (confidence[1] - scaled) <= One \div 100
                       /\ 2 * (scaled - confidence[1]) <= One \div 100

C9_Witness ==
    /\ confidence = <<6667000>>
    /\ Len(results) = 3
    /\ results[1].score < results[2].score
    /\ results[3].score < results[2].score

----------------------------------------------------------------------------
(* Claims about the context accumulator, under SpecHistory *)

\* C10: with n turns appended since the last reset, the conversation_history
\* of get_context_window is the last min(10, n) of them in append order, and
\* never more than 10 turns.
C10_WindowIsLastTen ==
    (ret # <<>> /\ ret.op = "get_context_window") =>
        LET n == Len(conversation_history)
            w == ret.conversation_history
            k == Len(w)
        IN  /\ k <= 10
            /\ k = (IF n < 10 THEN n ELSE 10)
            /\ \A i \in 1..k :
                  /\ w[i] = conversation_history[n - k + i]
                  /\ w[i].timestamp = now - k + i

C10_Witness ==
    /\ ret # <<>>
    /\ ret.op = "get_context_window"
    /\ Len(conversation_history) = 15
    /\ Len(ret.conversation_history) = 10
    /\ ret.conversation_history[1] = conversation_history[6]
    /\ ret.conversation_history[10] = conversation_history[15]

----------------------------------------------------------------------------
(* Claims about the document log, under SpecDocs *)

\* C11: the retrieved_documents of get_context_window are the (at most 3)
\* highest-scoring documents among all those added since the last reset,
\* by score descending with ties in insertion order.
C11_WindowIsTopThree ==
    (ret # <<>> /\ ret.op = "get_context_window") =>
        LET n == Len(retrieved_documents)
            w == ret.retrieved_documents
            k == Len(w)
        IN  /\ k <= 3
            /\ k = (IF n < 3 THEN n ELSE 3)
            /\ \E p \in [1..k -> 1..n] :
                  /\ \A j \in 1..k : w[j] = retrieved_documents[p[j]]
                  /\ \A j, l \in 1..k :
                        j < l => \/ w[j].score > w[l].score
                                 \/ (w[j].score = w[l].score /\ p[j] < p[l])
                  /\ \A i \in (1..n) \ {p[j] : j \in 1..k} :
                        \A j \in 1..k :
                            \/ retrieved_documents[i].score < w[j].score
                            \/ (retrieved_documents[i].score = w[j].score /\ p[j] < i)

C11_Witness ==
    /\ ret # <<>>
    /\ ret.op = "get_context_window"
    /\ Len(retrieved_documents) = 4
    /\ Len(ret.retrieved_documents) = 3
    /\ ret.retrieved_documents[1] = retrieved_documents[4]
    /\ retrieved_documents[1].score < ret.retrieved_documents[3].score
    /\ ret.retrieved_documents[2].score = ret.retrieved_documents[3].score
    /\ ret.retrieved_documents[2].id # ret.retrieved_documents[3].id

----------------------------------------------------------------------------
(* Claims about the context accumulator as a whole, under SpecContext *)

Called(op) == ret # <<>> /\ ret.op = op

C13_ClearIsFull ==
    /\ [](Called("clear_context") =>
             /\ conversation_history = <<>>
             /\ retrieved_documents = <<>>
             /\ current_query = <<>>)
    /\ [][ (Called("clear_context") /\ ret'.op = "get_context_window") =>
              /\ ret'.conversation_history = <<>>
              /\ ret'.retrieved_documents = <<>>
              /\ ret'.current_query = <<>> ]_vars

C13_Witness ==
    /\ Called("get_context_window")
    /\ now = 11
    /\ ret.conversation_history = <<>>
    /\ ret.retrieved_documents = <<>>
    /\ ret.current_query = <<>>

----------------------------------------------------------------------------
(* Claims about the named timers, under SpecTimers *)

\* C14: stop_timer on a name that is not running returns 0.0 and leaves the
\* running timers and the metrics history unchanged; stop_timer on a running
\* name removes exactly that timer and no other.
C14_StopTimer ==
    [][ ret'.op = "stop_timer" =>
          LET name == ret'.timer_name
          IN  /\ metrics_history' = metrics_history
              /\ name \notin DOMAIN current_timers =>
                    /\ ret'.value = 0
                    /\ current_timers' = current_timers
              /\ name \in DOMAIN current_timers =>
                    /\ DOMAIN current_timers' = DOMAIN current_timers \ {name}
                    /\ \A n \in DOMAIN current_timers' :
                          current_timers'[n] = current_timers[n]
                    /\ ret'.value = (now' - current_timers[name]) * One
      ]_vars

\* a second stop of the same timer, with another timer still running and a
\* record in the history
C14_Witness ==
    /\ Called("stop_timer")
    /\ ret.warning
    /\ ret.value = 0
    /\ DOMAIN current_timers = {"document_retrieval"}
    /\ ret.timer_name = "total_response"
    /\ now = 2
    /\ Len(metrics_history) = 1

----------------------------------------------------------------------------
(* Claims about the metrics history, under SpecMetrics *)

\* C17: get_average_metrics(N) averages exactly the min(N, |history|) most
\* recently recorded records, and returns None when there are none (empty
\* history, or N = 0).
C17_AverageOfLastN ==
    Called("get_average_metrics") =>
        LET len == Len(metrics_history)
            k == Min(ret.last_n, len)
            recent == SubSeq(metrics_history, len - k + 1, len)
        IN  ret.value = IF k = 0 THEN <<>> ELSE <<Averages(recent)>>

----------------------------------------------------------------------------
(* Claims about the chat handler, under SpecChat *)

\* the step in which a chat request that reached retrieve returns its body
ChatReturns == chat.pc = "retrieving" /\ chat'.pc = "idle"

StaticFallbacks == {FallbackJammu, FallbackHotel, FallbackFlight, FallbackGeneric}

\* C15: when the retriever raises, chat returns a normal body with the static
\* fallback text, confidence 80.0, documents_retrieved 0 and no documents;
\* when the retriever returns an empty list it returns the same shape with
\* confidence 75.0.
C15_FallbackAnswers ==
    [][ ChatReturns =>
          LET Fallback(c) ==
                  /\ reply'.status = 200
                  /\ reply'.query = chat.user_query
                  /\ reply'.response \in StaticFallbacks
                  /\ chat.user_query = <<"hi">> => reply'.response = FallbackGeneric
                  /\ chat.user_query \in Queries => reply'.response = FallbackHotel
                  /\ reply'.confidence = c
                  /\ reply'.documents_retrieved = 0
                  /\ reply'.retrieved_documents = <<>>
          IN  /\ pc = "raised" => Fallback(80 * One)
              /\ (pc = "returned" /\ results = <<>>) => Fallback(75 * One)
      ]_vars

\* an index-failure fallback as the second answered request
C15_Witness ==
    /\ reply.status = 200
    /\ reply.confidence = 80 * One
    /\ reply.response = FallbackHotel
    /\ reply.documents_retrieved = 0
    /\ reply.retrieved_documents = <<>>
    /\ Len(metrics_history) = 2
    /\ Len(conversation_history) = 2

\* a metrics record without its wall-clock values
SansClock(m) ==
    [m EXCEPT !.timestamp = 0, !.query_processing_time = 0,
              !.document_retrieval_time = 0, !.response_generation_time = 0,
              !.total_response_time = 0]

\* C16: from the same state with the same query, the empty-result path and
\* the index-failure path give the same response text, the same metrics
\* record apart from wall-clock values and the same set of running timers,
\* and differ only in the confidence (75.0 against 80.0); neither touches
\* the conversation log.
C16_SameFallback ==
    chat.pc = "retrieving" =>
        \A t \in ChatTimeReads :
            LET failed == RetrievalFailed(t)
                empty == NoDocuments(t)
            IN  /\ failed.body.response = empty.body.response
                /\ SansClock(failed.metrics) = SansClock(empty.metrics)
                /\ failed.body.confidence = 80 * One
                /\ empty.body.confidence = 75 * One
                /\ [failed.body EXCEPT !.confidence = 0, !.response_time = 0]
                      = [empty.body EXCEPT !.confidence = 0, !.response_time = 0]
                /\ DOMAIN failed.timers = DOMAIN empty.timers

\* C18: in every chat response retrieved_documents holds the first min(3, n)
\* of the n ranked results in ranked order and never more than 3,
\* documents_retrieved is n, and the confidence is _calculate_confidence of
\* the ranked results when n > 0.
C18_TopThreeInBody ==
    [][ ChatReturns =>
          LET n == Len(results)
              docs == reply'.retrieved_documents
              k == Len(docs)
          IN  /\ k <= 3
              /\ k = Min(3, n)
              /\ \A i \in 1..k :
                    /\ docs[i].id = results[i].id
                    /\ docs[i].score = results[i].score
                    /\ docs[i].metadata = results[i].metadata
                    /\ \/ docs[i].content = results[i].content
                       \/ /\ Len(results[i].content) > 200
                          /\ docs[i].content = SubSeq(results[i].content, 1, 200) \o <<"...">>
              /\ \A i \in 1..(n - 1) : results[i].score >= results[i + 1].score
              /\ reply'.documents_retrieved = n
              /\ n > 0 => reply'.confidence = _calculate_confidence(results)
      ]_vars

C18_Witness ==
    /\ reply.status = 200
    /\ reply.documents_retrieved = 4
    /\ Len(reply.retrieved_documents) = 3
    /\ reply.retrieved_documents[1].id = "b"
    /\ Len(reply.retrieved_documents[1].content) = 201
    /\ reply.retrieved_documents[3].id = "c"
    /\ reply.confidence = 90 * One

\* C19: the metrics history is append-only between clears: a chat request
\* that returns a body appends exactly one record and changes no earlier
\* one, a rejected request appends none, and get_metrics_summary reports the
\* number of records since the last clear_metrics, or the 'No metrics
\* recorded yet' message when there are none.
C19_HistoryAppendOnly ==
    /\ [][ /\ ChatReturns =>
                 /\ reply'.status = 200
                 /\ Len(metrics_history') = Len(metrics_history) + 1
           /\ (chat.pc = "idle" /\ reply' # reply /\ reply'.status # 200) =>
                 metrics_history' = metrics_history
           /\ \/ /\ Len(metrics_history') >= Len(metrics_history)
                 /\ SubSeq(metrics_history', 1, Len(metrics_history)) = metrics_history
              \/ /\ ret' # <<>>
                 /\ ret'.op = "clear_metrics"
                 /\ metrics_history' = <<>>
         ]_vars
    /\ [](Called("get_metrics_summary") =>
             IF Len(metrics_history) = 0
             THEN ret.value = [message |-> <<"No", "metrics", "recorded", "yet">>]
             ELSE ret.value.total_queries_processed = Len(metrics_history))

\* a summary of one record after one answered and one rejected request
C19_Witness ==
    /\ Called("get_metrics_summary")
    /\ Len(metrics_history) = 1
    /\ reply.status = 500
    /\ ret.value.total_queries_processed = 1
    /\ Len(conversation_history) = 1

----------------------------------------------------------------------------
(* Claims about concurrent upload requests, under SpecUpload *)

\* C20: in every interleaving of two upload-document requests, each
\* request's stop_timer finds the timer the same request started: no
\* stop_timer hits the stopped-without-start case, and the reported
\* processing time is measured from the request's own start.
C20_OwnTimer ==
    \A u \in UploadIds :
        (uploads[u].pc = "done" /\ uploads[u].status = 200) =>
            /\ ~uploads[u].warning
            /\ uploads[u].elapsed = (uploads[u].finished - uploads[u].started) * One

----------------------------------------------------------------------------
(* Claims about scores under a normalised metric, under SpecUnit *)

\* C21: when every distance of the index's answer lies in [0, 1], every
\* score retrieve returns lies in [0, 1], the score given to a result whose
\* distance is missing included.
C21_ScoresInUnitRange ==
    (pc = "returned" /\ \A i \in 1..Len(RespDistances) :
                            0 <= RespDistances[i] /\ RespDistances[i] <= One) =>
        \A j \in 1..Len(results) : 0 <= results[j].score /\ results[j].score <= One

\* two results, the first without a distance, the second at distance 1.0
C21_Witness ==
    /\ pc = "returned"
    /\ Len(RespIds) = 2
    /\ Len(RespDistances) = 1
    /\ RespDistances[1] = One
    /\ Len(results) = 2
    /\ results[1].score = One
    /\ results[2].score = 0

----------------------------------------------------------------------------
(* Positional alignment of the ranker's results, under SpecRetrieve *)

\* C25: every result of retrieve carries the id, content, metadata and
\* distance-derived score of one and the same position of the index's
\* answer (distinct results come from distinct positions); a missing
\* document gives the empty string, a missing metadata the empty mapping,
\* and source is always 'vector'.
C25_PositionsAligned ==
    pc = "returned" =>
        \E p \in [1..Len(results) -> 1..Len(RespIds)] :
            /\ \A j, l \in 1..Len(results) : j # l => p[j] # p[l]
            /\ \A j \in 1..Len(results) :
                  LET i == p[j]
                  IN  /\ results[j].id = RespIds[i]
                      /\ results[j].content =
                            (IF i <= Len(Inner(resp.documents))
                             THEN Inner(resp.documents)[i] ELSE <<>>)
                      /\ results[j].metadata =
                            (IF i <= Len(Inner(resp.metadatas))
                             THEN Inner(resp.metadatas)[i] ELSE {})
                      /\ results[j].score = ScoreAt(i)
                      /\ results[j].source = "vector"

\* the ranking swapped the two candidates; the second had no metadata
C25_Witness ==
    /\ pc = "returned"
    /\ Len(results) = 2
    /\ RespIds = <<"a", "b">>
    /\ results[1].id = "b"
    /\ results[1].content = ContentAt(2)
    /\ results[1].metadata = {}
    /\ results[2].id = "a"
    /\ results[2].content = ContentAt(1)
    /\ results[2].metadata = MetadataAt(1)
    /\ results[1].score > results[2].score

----------------------------------------------------------------------------
(* Claims about the handlers' paths, under SpecChat *)

\* C22: a request that fails input validation is rejected with HTTP status
\* 400: a chat request with a missing or empty message ends with status 400
\* 'Message is required' (and an upload without a filename with status 400
\* 'Filename is required').
C22_RejectedWith400 ==
    reply.status \notin {0, 200} =>
        /\ reply.status = 400
        /\ reply.detail = <<"Message is required">>

\* C23: timers are balanced per request: whenever no request is in progress
\* the set of running timers is empty, whichever path the requests took.
C23_TimersBalanced ==
    chat.pc = "idle" => DOMAIN current_timers = {}

\* C24: every response text chat returns is appended to the conversation
\* log as an assistant turn directly after the request's user turn, so that
\* between requests the log alternates user, assistant, user, assistant.
C24_LogAlternates ==
    chat.pc = "idle" =>
        LET n == Len(conversation_history)
        IN  /\ n % 2 = 0
            /\ \A i \in 1..n :
                  conversation_history[i].role =
                      (IF i % 2 = 1 THEN "user" ELSE "assistant")
            /\ reply.status = 200 =>
                  /\ n >= 2
                  /\ conversation_history[n - 1].content = reply.query
                  /\ conversation_history[n].content = reply.response

====
